---- MODULE Spec2Model ----
(***************************************************************************)
(* The file manager widget of indico: Dropzone, FileManager and the        *)
(* reducer, upload coordinator and selectors they call.                    *)
(*                                                                         *)
(* The React component is a state machine: `state` is the useReducer       *)
(* state, every event handler (drop, upload response, prop change) is one  *)
(* action, and the two useEffect callbacks of FileManager run together,    *)
(* after every render, before the next event is handled.                   *)
(***************************************************************************)
EXTENDS Integers, Sequences, FiniteSets, TLC

(* ---------------------------------------------------------------- bounds *)
\* how many drops (calls of onDropAccepted / getFilesFromEvent) a run makes
MaxDrops == 2
\* how many files one drop delivers at most
MaxDropLen == 2

(* ------------------------------------------------------------- constants *)
\* JavaScript null (fileToReplace, fileToDelete, replace uuid, failure sentinel)
Null == 0
\* an entry of rv that uploadFiles has not resolved yet
Pending == -1

\* the file types (categories) of the widget: 1 is a single-file category with a
\* filename template, 2 is a multi-file category without one
FileTypeIds == {1, 2}

allowMultipleFiles(id) == id = 2

\* glob patterns and file names are sequences of characters
NoTemplate == << >>

filenameTemplate(id) == IF id = 1 THEN <<"p", "*">> ELSE NoTemplate

\* the names of the files a user drops
FileNames ==
    { <<"p", ".", "j">>,       \* p.j
      <<"p", "q", ".", "j">>,  \* pq.j
      <<"x", "p">> }           \* xp (no extension)

(* ------------------------------------------------------------- sequences *)
Range(s) == { s[i] : i \in DOMAIN s }

\* String.prototype.indexOf, 0-based, -1 when absent
RECURSIVE IndexFrom(_, _, _)
IndexFrom(s, ch, i) ==
    IF i > Len(s) THEN -1
    ELSE IF s[i] = ch THEN i - 1
    ELSE IndexFrom(s, ch, i + 1)

indexOf(s, ch) == IndexFrom(s, ch, 1)

\* String.prototype.slice(0, end): a negative end counts from the end of the string
slice0(s, end) ==
    LET e == IF end < 0 THEN (IF Len(s) + end < 0 THEN 0 ELSE Len(s) + end)
             ELSE (IF end > Len(s) THEN Len(s) ELSE end)
    IN  SubSeq(s, 1, e)

\* globToRegExp(glob).test(str) without options: "*" matches any run of
\* characters, every other character matches itself, the pattern is anchored
RECURSIVE globTest(_, _)
globTest(glob, str) ==
    IF glob = << >> THEN str = << >>
    ELSE IF Head(glob) = "*"
         THEN globTest(Tail(glob), str)
              \/ (str # << >> /\ globTest(glob, Tail(str)))
    ELSE str # << >> /\ Head(str) = Head(glob) /\ globTest(Tail(glob), Tail(str))

(* ------------------------------------------------------- registry state *)
\* lifecycle states of a File; NoState is the state of a file that comes from
\* the form's initial value
NoState == "none"

File(uuid, filename, fstate) == [uuid |-> uuid, filename |-> filename, state |-> fstate]

FileType(files, invalidFiles) == [files |-> files, invalidFiles |-> invalidFiles]

NoUploads == [id \in FileTypeIds |-> {}]

Upload(tmpId, progress) == [tmpId |-> tmpId, progress |-> progress]

\* the action creators of ./actions
reset(fileTypes) == [type |-> "reset", fileTypes |-> fileTypes]
clearDirty == [type |-> "clearDirty"]
invalidTemplate(id, filename) == [type |-> "invalidTemplate", fileTypeId |-> id, filename |-> filename]
startUploads(id, tmpIds) == [type |-> "startUploads", fileTypeId |-> id, tmpIds |-> tmpIds]
progressAction(id, tmpId, pct) == [type |-> "progress", fileTypeId |-> id, tmpId |-> tmpId, progress |-> pct]
uploadFailed(id, tmpId) == [type |-> "uploadFailed", fileTypeId |-> id, tmpId |-> tmpId]
markUploaded(id, tmpId, uuid, filename, replacedUuid) ==
    [type |-> "markUploaded", fileTypeId |-> id, tmpId |-> tmpId, uuid |-> uuid,
     filename |-> filename, replacedUuid |-> replacedUuid]
markModified(id, tmpId, uuid, filename, replacedUuid) ==
    [type |-> "markModified", fileTypeId |-> id, tmpId |-> tmpId, uuid |-> uuid,
     filename |-> filename, replacedUuid |-> replacedUuid]

removeUpload(uploads, id, tmpId) ==
    [uploads EXCEPT ![id] = { u \in @ : u.tmpId # tmpId }]

\* markModified: the file whose uuid is replacedUuid becomes the new file
replaceFile(files, replacedUuid, newFile) ==
    [i \in DOMAIN files |-> IF files[i].uuid = replacedUuid THEN newFile ELSE files[i]]

\* the reducer of ./reducer
reducer(st, action) ==
    CASE action.type = "reset" ->
            [fileTypes |-> action.fileTypes, uploads |-> NoUploads, isDirty |-> FALSE]
      [] action.type = "clearDirty" ->
            [st EXCEPT !.isDirty = FALSE]
      [] action.type = "invalidTemplate" ->
            [st EXCEPT !.fileTypes[action.fileTypeId].invalidFiles = Append(@, action.filename)]
      [] action.type = "startUploads" ->
            [st EXCEPT !.uploads[action.fileTypeId] =
                          @ \cup { Upload(t, 0) : t \in action.tmpIds }]
      [] action.type = "progress" ->
            [st EXCEPT !.uploads[action.fileTypeId] =
                          { IF u.tmpId = action.tmpId THEN Upload(u.tmpId, action.progress) ELSE u
                            : u \in @ }]
      [] action.type = "uploadFailed" ->
            [st EXCEPT !.uploads = removeUpload(@, action.fileTypeId, action.tmpId)]
      [] action.type = "markUploaded" ->
            [st EXCEPT !.fileTypes[action.fileTypeId].files =
                          Append(@, File(action.uuid, action.filename, "added")),
                       !.uploads = removeUpload(@, action.fileTypeId, action.tmpId),
                       !.isDirty = TRUE]
      [] action.type = "markModified" ->
            [st EXCEPT !.fileTypes[action.fileTypeId].files =
                          replaceFile(@, action.replacedUuid,
                                      File(action.uuid, action.filename, "modified")),
                       !.uploads = removeUpload(@, action.fileTypeId, action.tmpId),
                       !.isDirty = TRUE]

\* dispatching several actions one after the other
RECURSIVE reduceAll(_, _)
reduceAll(st, actions) ==
    IF actions = << >> THEN st
    ELSE reduceAll(reducer(st, Head(actions)), Tail(actions))

(* -------------------------------------------------------------- selectors *)
\* the uuids of a list of files, in order
RECURSIVE uuidsOf(_)
uuidsOf(files) ==
    IF files = << >> THEN << >> ELSE <<Head(files).uuid>> \o uuidsOf(Tail(files))

RECURSIVE uploadedOf(_)
uploadedOf(files) ==
    IF files = << >> THEN << >>
    ELSE (IF Head(files).state \in {"added", "modified"} THEN <<Head(files)>> ELSE << >>)
         \o uploadedOf(Tail(files))

\* all files of all file types, in the order of the file types
allFiles(fileTypes) == fileTypes[1].files \o fileTypes[2].files

\* getFiles: the value the widget presents to the form
getFiles(st) == uuidsOf(allFiles(st.fileTypes))

\* getUploadedFileUUIDs: the uuids of the files in state added or modified
getUploadedFileUUIDs(st) == uuidsOf(uploadedOf(allFiles(st.fileTypes)))

\* isUploading: some file type has a pending upload
isUploading(st) == \E id \in FileTypeIds : st.uploads[id] # {}

\* getValidationError: some file type has files rejected by its template
NoError == "none"

getValidationError(st) ==
    IF \E id \in FileTypeIds : st.fileTypes[id].invalidFiles # << >>
    THEN "invalid files" ELSE NoError

(* ---------------------------------------------------------------- state *)
VARIABLES
    state,            \* FileManager: the useReducer state {fileTypes, uploads, isDirty}
    initialFileTypes, \* FileManager: _fileTypes = mapFileTypes(fileTypes, files)
    finalFieldName,   \* FileManager prop; "" stands for null
    pristine,         \* FileManager prop
    lastPristineRef,  \* FileManager: lastPristineRef.current
    needsEffects,     \* a render has happened whose effects have not run yet
    tasks,            \* the calls of onDropAccepted that await uploadFiles
    nextDrop,         \* the number of the next drop
    nextUuid,         \* the uuid the server assigns to the next stored file
    deleteCalls,      \* the uuids deleteFile was called with, in order
    formValue,        \* the argument of the latest onChange call
    last              \* what the latest step did

vars == <<state, initialFileTypes, finalFieldName, pristine, lastPristineRef, needsEffects,
          tasks, nextDrop, nextUuid, deleteCalls, formValue, last>>

NoFieldName == ""

\* the uuid of the file the form's initial value gives file type id
InitialUuid(id) == id

FirstServerUuid == Cardinality(FileTypeIds) + 1

NoTask == [drop |-> 0]

Step(op, id, task, a, b) == [op |-> op, fileTypeId |-> id, task |-> task, a |-> a, b |-> b]

(* -------------------------------------------------------------- Dropzone *)
\* mutant of fileToReplace: the test of allowMultipleFiles left out
fileToReplace_AnyType(id, files) ==
    IF Len(files) # 0 /\ files[1].state # "added" THEN files[1].uuid ELSE Null

\* Dropzone: fileToReplace (its uuid, or Null)
fileToReplace(id, files) ==
    IF ~allowMultipleFiles(id) /\ Len(files) # 0 /\ files[1].state # "added"
    THEN files[1].uuid ELSE Null

\* mutant of fileToDelete: the test of allowMultipleFiles left out
fileToDelete_AnyType(id, files) ==
    IF Len(files) # 0 /\ files[1].state \in {"added", "modified"} THEN files[1].uuid ELSE Null

\* mutant of fileToDelete: the test of the state of the file left out
fileToDelete_AnyState(id, files) ==
    IF ~allowMultipleFiles(id) /\ Len(files) # 0 THEN files[1].uuid ELSE Null

\* Dropzone: fileToDelete (its uuid, or Null)
fileToDelete(id, files) ==
    IF ~allowMultipleFiles(id) /\ Len(files) # 0 /\ files[1].state \in {"added", "modified"}
    THEN files[1].uuid ELSE Null

\* onDropAccepted: the mark action handed to uploadFiles
markActionOf(replaceUuid) == IF replaceUuid # Null THEN "markModified" ELSE "markUploaded"

\* mutant of spliceAccepted: the last file is kept instead of the first
spliceAccepted_Last(id, acceptedFiles) ==
    IF ~allowMultipleFiles(id) /\ Len(acceptedFiles) > 1
    THEN <<acceptedFiles[Len(acceptedFiles)]>> ELSE acceptedFiles

\* onDropAccepted: acceptedFiles.splice(0, 1) unless multiple files are allowed
spliceAccepted(id, acceptedFiles) ==
    IF ~allowMultipleFiles(id) /\ Len(acceptedFiles) > 1
    THEN <<acceptedFiles[1]>> ELSE acceptedFiles

\* mutants of deleteAfterUpload: the condition inverted; the check of rv[0] left out
deleteAfterUpload_Inverted(deleteUuid, rv) == deleteUuid # Null /\ rv[1] = Null

deleteAfterUpload_Unchecked(deleteUuid, rv) == deleteUuid # Null

\* onDropAccepted: whether the superseded file is deleted once uploadFiles has returned rv
deleteAfterUpload(deleteUuid, rv) == deleteUuid # Null /\ rv[1] # Null

\* getFilesFromEvent: the test of one file name against the template
templateAccepts(id, name) ==
    filenameTemplate(id) = NoTemplate
    \/ globTest(filenameTemplate(id), slice0(name, indexOf(name, ".")))

\* mutant of keptFiles: the filter keeps the files it reports
keptFiles_All(id, eventFiles) == eventFiles

\* getFilesFromEvent: the files kept, and the files reported invalid
RECURSIVE keptFiles(_, _)
keptFiles(id, eventFiles) ==
    IF eventFiles = << >> THEN << >>
    ELSE (IF templateAccepts(id, Head(eventFiles)) THEN <<Head(eventFiles)>> ELSE << >>)
         \o keptFiles(id, Tail(eventFiles))

RECURSIVE invalidDispatches(_, _)
invalidDispatches(id, eventFiles) ==
    IF eventFiles = << >> THEN << >>
    ELSE (IF templateAccepts(id, Head(eventFiles)) THEN << >>
          ELSE <<invalidTemplate(id, Head(eventFiles))>>)
         \o invalidDispatches(id, Tail(eventFiles))

\* uploadFiles: the temporary ids of the uploads of one call
tmpIdsOf(drop, files) == { <<drop, i>> : i \in DOMAIN files }

\* the drops a user makes: one to MaxDropLen files
DropInputs == UNION { [1..n -> FileNames] : n \in 1..MaxDropLen }

\* the drops made on file type id: where no template looks at the names, the dropped
\* files all have the same name
DropsOn(id) ==
    IF filenameTemplate(id) = NoTemplate
    THEN { eventFiles \in DropInputs : Range(eventFiles) = { <<"p", ".", "j">> } }
    ELSE DropInputs

\* a drop on the Dropzone of file type id: getFilesFromEvent, then (when a file is
\* left) onDropAccepted up to its await of uploadFiles
Drop(id, eventFiles) ==
    LET files     == state.fileTypes[id].files
        invalid   == invalidDispatches(id, eventFiles)
        accepted  == spliceAccepted(id, keptFiles(id, eventFiles))
        replaceId == fileToReplace(id, files)
        task      == [drop |-> nextDrop, fileTypeId |-> id,
                      action |-> markActionOf(replaceId), replaceUuid |-> replaceId,
                      deleteUuid |-> fileToDelete(id, files),
                      files |-> accepted, rv |-> [i \in DOMAIN accepted |-> Pending]]
        started   == IF accepted = << >> THEN << >>
                     ELSE <<startUploads(id, tmpIdsOf(nextDrop, accepted))>>
    IN  /\ ~needsEffects
        /\ nextDrop <= MaxDrops
        /\ state' = reduceAll(state, invalid \o started)
        /\ tasks' = IF accepted = << >> THEN tasks ELSE tasks \cup {task}
        /\ nextDrop' = nextDrop + 1
        /\ needsEffects' = TRUE
        /\ last' = Step("drop", id, IF accepted = << >> THEN NoTask ELSE task,
                        Len(invalid), Len(eventFiles))
        /\ UNCHANGED <<initialFileTypes, finalFieldName, pristine, lastPristineRef,
                       nextUuid, deleteCalls, formValue>>

(* ---------------------------------------------------- upload coordinator *)
\* uploadFiles: the action dispatched when the upload of file i of a task succeeds
markDispatch(task, i, uuid) ==
    IF task.action = "markModified"
    THEN markModified(task.fileTypeId, <<task.drop, i>>, uuid, task.files[i], task.replaceUuid)
    ELSE markUploaded(task.fileTypeId, <<task.drop, i>>, uuid, task.files[i], task.replaceUuid)

resolved(rv) == \A i \in DOMAIN rv : rv[i] # Pending

\* onDropAccepted after its await: the deleteFile calls it makes once rv is complete
deletesAfter(task, rv) ==
    IF resolved(rv) /\ deleteAfterUpload(task.deleteUuid, rv) THEN <<task.deleteUuid>> ELSE << >>

\* the response to (or the failure of) the upload of file i of a task: uploadFiles
\* dispatches, records the result in rv, and when rv is complete onDropAccepted resumes
Respond(task, i, result, dispatched, op) ==
    LET rv == [task.rv EXCEPT ![i] = result]
    IN  /\ ~needsEffects
        /\ task.rv[i] = Pending
        /\ state' = reducer(state, dispatched)
        /\ tasks' = IF resolved(rv) THEN tasks \ {task}
                              ELSE (tasks \ {task}) \cup {[task EXCEPT !.rv = rv]}
        /\ deleteCalls' = deleteCalls \o deletesAfter(task, rv)
        /\ needsEffects' = TRUE
        /\ last' = Step(op, task.fileTypeId, [task EXCEPT !.rv = rv], i, resolved(rv))
        /\ UNCHANGED <<initialFileTypes, finalFieldName, pristine, lastPristineRef,
                       nextDrop, formValue>>

UploadSucceeds(task, i) ==
    /\ Respond(task, i, nextUuid, markDispatch(task, i, nextUuid), "uploadOk")
    /\ nextUuid' = nextUuid + 1

UploadFails(task, i) ==
    /\ Respond(task, i, Null, uploadFailed(task.fileTypeId, <<task.drop, i>>), "uploadFail")
    /\ UNCHANGED nextUuid

\* a progress event of the upload of file i of a task
UploadProgress(task, i) ==
    /\ ~needsEffects
    /\ task.rv[i] = Pending
    /\ Upload(<<task.drop, i>>, 0) \in state.uploads[task.fileTypeId]
    /\ state' = reducer(state, progressAction(task.fileTypeId, <<task.drop, i>>, 100))
    /\ needsEffects' = TRUE
    /\ last' = Step("progress", task.fileTypeId, task, i, FALSE)
    /\ UNCHANGED <<initialFileTypes, finalFieldName, pristine, lastPristineRef, tasks,
                   nextDrop, nextUuid, deleteCalls, formValue>>

(* ----------------------------------------------------------- FileManager *)
\* the form changes the pristine prop, which renders FileManager again
SetPristine(value) ==
    /\ ~needsEffects
    /\ value # pristine
    /\ pristine' = value
    /\ needsEffects' = TRUE
    /\ last' = Step("pristine", 0, NoTask, value, FALSE)
    /\ UNCHANGED <<state, initialFileTypes, finalFieldName, lastPristineRef, tasks,
                   nextDrop, nextUuid, deleteCalls, formValue>>

\* mutant of pristineRestored: lastPristineRef is not consulted
pristineRestored_NoRef(now, before) == now

\* first effect: the condition under which the files are deleted and the state is reset
pristineRestored(now, before) == now /\ ~before

\* first effect: the deleteFile calls
resetDeletes(st) == getUploadedFileUUIDs(st)

\* mutant of resetArgument: the reset keeps the current file types
resetArgument_Current(st, fileTypes) == st.fileTypes

\* first effect: the argument of actions.reset
resetArgument(st, fileTypes) == fileTypes

\* mutant of propagates: onChange is called by every run of the effect
propagates_Always(st) == TRUE

\* mutant of propagates: onChange is also called while a file type has invalid files
propagates_Invalid(st) == st.isDirty \/ getValidationError(st) # NoError

\* second effect: the condition under which onChange is called
propagates(st) == st.isDirty

\* second effect: the argument of onChange
changeArgument(st) == getFiles(st)

\* the two effects of FileManager, run after a render, both on the state of that
\* render; what they dispatch is applied afterwards, in order
RunEffects ==
    LET restored == pristineRestored(pristine, lastPristineRef)
        dirty    == propagates(state)
        first    == IF restored THEN <<reset(resetArgument(state, initialFileTypes))>> ELSE << >>
        second   == IF dirty THEN <<clearDirty>> ELSE << >>
    IN  /\ needsEffects
        /\ deleteCalls' = deleteCalls \o (IF restored THEN resetDeletes(state) ELSE << >>)
        /\ lastPristineRef' = pristine
        /\ formValue' = IF dirty THEN changeArgument(state) ELSE formValue
        /\ state' = reduceAll(state, first \o second)
        /\ needsEffects' = (first \o second # << >>)
        /\ last' = Step("effects", 0, NoTask, restored, dirty)
        /\ UNCHANGED <<initialFileTypes, finalFieldName, pristine, tasks, nextDrop, nextUuid>>

\* mutant of uploadingField: the field is rendered whether or not an upload is pending
uploadingField_Always(fieldName, st) == fieldName # NoFieldName

\* render: the hidden field whose validation fails with 'Upload in progress'
uploadingField(fieldName, st) == fieldName # NoFieldName /\ isUploading(st)

\* render: the hidden field whose validation fails with the validation error
invalidField(fieldName, st) == fieldName # NoFieldName /\ getValidationError(st) # NoError

(* --------------------------------------------------- confirmation dialog *)
VARIABLES
    dialog            \* the rendered confirmation dialog: its macro arguments and its DOM

\* no confirmation dialog is on the page
NoDialog == [rendered |-> FALSE]

\* confirmation_dialog: the checkbox is rendered in the footer of the message box when
\* there is a message, and on its own otherwise, in both cases under extra_confirmation
checkboxRendered(message, extra_confirmation) ==
    IF message THEN extra_confirmation ELSE extra_confirmation

\* confirmation_dialog: the disabled attribute of the rendered button
buttonDisabledAttr(extra_confirmation) == extra_confirmation

\* mutant of disabledOnChange: the button follows the checkbox
disabledOnChange_Same(checked) == checked

\* the change handler: prop('disabled', !this.checked)
disabledOnChange(checked) == ~checked

\* the dialog as the browser first shows it
RenderedDialog(message, extra_confirmation) ==
    [rendered           |-> TRUE,
     message            |-> message,
     extra_confirmation |-> extra_confirmation,
     checked            |-> FALSE,
     disabled           |-> buttonDisabledAttr(extra_confirmation),
     submitted          |-> FALSE]

\* the user ticks or unticks the checkbox: the change handler runs
ChangeCheckbox ==
    /\ dialog.rendered
    /\ ~dialog.submitted
    /\ checkboxRendered(dialog.message, dialog.extra_confirmation)
    /\ dialog' = [dialog EXCEPT !.checked = ~dialog.checked,
                                !.disabled = disabledOnChange(~dialog.checked)]

\* the user clicks the primary button, which a browser lets through unless it is disabled
SubmitDialog ==
    /\ dialog.rendered
    /\ ~dialog.submitted
    /\ ~dialog.disabled
    /\ dialog' = [dialog EXCEPT !.submitted = TRUE]


(* --------------------------------------------------------- DateNavigator *)
VARIABLES
    nav               \* DateNavigator: its props, and what its latest handler did

\* no date navigator is on the page
NoNavigator == [pc |-> "none"]

DaysPerWeek == 7

\* the calendar: January to March of a year that starts on the first day of a week
MonthLengths == <<31, 28, 31>>

Months == DOMAIN MonthLengths

Modes == {"days", "weeks", "months"}

\* the strings 'YYYY-MM-DD' of the calendar, as <<month, day of the month>>
DateStrings == { dt \in Months \X (1..31) : dt[2] <= MonthLengths[dt[1]] }

\* what reading past the end of an array gives
Undefined == << >>

\* what toMoment gives for no date, and the mark of a step that called nothing
NoDate == -1
NoCall == -2

RECURSIVE daysBefore(_)
\* the days of the calendar before month m
daysBefore(m) == IF m <= 1 THEN 0 ELSE daysBefore(m - 1) + MonthLengths[m - 1]

\* the moments of the calendar: days counted from its first day
Moments == 0..(daysBefore(Len(MonthLengths) + 1) - 1)

\* toMoment(dt, 'YYYY-MM-DD')
toMoment(dt) == IF dt = Undefined THEN NoDate ELSE daysBefore(dt[1]) + dt[2] - 1

monthOf(t) == CHOOSE m \in Months : daysBefore(m) <= t /\ t < daysBefore(m + 1)

\* the owner's formatting of a moment as 'YYYY-MM-DD'
serializeDate(t) == <<monthOf(t), t - daysBefore(monthOf(t)) + 1>>

\* moment.startOf
startOf(t, unit) ==
    CASE unit = "week"  -> t - (t % DaysPerWeek)
      [] unit = "month" -> daysBefore(monthOf(t))
      [] OTHER          -> t

\* moment.add(step, 'months'): the same day of the neighbouring month, or that month's
\* last day; the months around the calendar are as long as its first and last months
addMonths(t, step) ==
    LET m   == monthOf(t) + step
        dom == t - daysBefore(monthOf(t)) + 1
    IN  IF m \in Months
        THEN daysBefore(m) + (IF dom <= MonthLengths[m] THEN dom ELSE MonthLengths[m]) - 1
        ELSE IF m < 1 THEN t - MonthLengths[1] ELSE daysBefore(m) + dom - 1

\* moment.add(step, mode)
add(t, step, mode) ==
    CASE mode = "weeks"  -> t + step * DaysPerWeek
      [] mode = "months" -> addMonths(t, step)
      [] OTHER           -> t + step

\* moment.isBefore and moment.isAfter: false against an invalid moment
isBefore(a, b) == b # NoDate /\ a < b
isAfter(a, b) == b # NoDate /\ a > b

\* array[index], index counted from 0
at(array, index) == IF index + 1 \in DOMAIN array THEN array[index + 1] ELSE Undefined

\* array.findIndex(dt => dt === value), counted from 0
findIndex(array, value) ==
    IF \E k \in DOMAIN array : array[k] = value
    THEN (CHOOSE k \in DOMAIN array : array[k] = value /\ \A j \in 1..(k - 1) : array[j] # value) - 1
    ELSE -1

\* isDateWithinRange(date, dateRange, toMoment)
isDateWithinRange(date, dateRange) ==
    /\ toMoment(at(dateRange, 0)) <= date
    /\ date <= toMoment(at(dateRange, Len(dateRange) - 1))

\* the props the owner keeps for the navigator
propsOf(n) == [mode |-> n.mode, selectedDate |-> n.selectedDate]

\* get selectedDate
selectedDate(n) == toMoment(n.selectedDate)

\* mutant of expectedDate: the date is taken as it is in every mode
expectedDate_Clone(date, mode) == date

\* setDateWithMode: the first day of the week or month of date
expectedDate(date, mode) ==
    IF mode = "weeks" THEN startOf(date, "week")
    ELSE IF mode = "months" THEN startOf(date, "month")
    ELSE date

\* setDateWithMode: the date onDateChange is called with, NoCall when it is not called
setDateWithMode(date, mode, force) ==
    IF force \/ expectedDate(date, mode) # date THEN expectedDate(date, mode) ELSE NoCall

\* changeSelectedDate: the index of the date to go to
nextIndex(dateRange, selected, step) == findIndex(dateRange, selected) + step

\* changeSelectedDate: the date onDateChange is called with
changedDate(n, direction) ==
    LET step == IF direction = "next" THEN 1 ELSE -1
    IN  IF Len(n.dateRange) = 0 \/ n.mode # "days"
        THEN add(selectedDate(n), step, n.mode)
        ELSE toMoment(at(n.dateRange, nextIndex(n.dateRange, n.selectedDate, step)))

\* renderNavigator: the disabled prop of the two arrow buttons
prevDisabled(n) ==
    n.disabled \/ isBefore(add(selectedDate(n), -1, n.mode), toMoment(at(n.dateRange, 0)))

nextDisabled(n) ==
    n.disabled
    \/ isAfter(add(selectedDate(n), 1, n.mode), toMoment(at(n.dateRange, Len(n.dateRange) - 1)))

\* the owner of the props: onDateChange stores the date it is called with, as a string
onDateChange(props, called) ==
    IF called \in Moments THEN [props EXCEPT !.selectedDate = serializeDate(called)] ELSE props

\* the owner of the props: onModeChange stores the mode
onModeChange(props, mode) == [props EXCEPT !.mode = mode]

\* a handler of the navigator has run: the owner renders it with the new props, and
\* componentDidUpdate is due
Handled(op, props, called, corrections) ==
    /\ nav' = [nav EXCEPT !.mode = props.mode,
                          !.selectedDate = props.selectedDate,
                          !.prevProps = propsOf(nav),
                          !.pc = "updated",
                          !.op = op,
                          !.called = called,
                          !.corrections = corrections]
    /\ UNCHANGED dialog

\* the calls of onDateChange stay in the calendar
inCalendar(called) == called \in Moments \cup {NoCall, NoDate}

\* constructor
Construct ==
    /\ nav.pc = "new"
    /\ LET called == setDateWithMode(selectedDate(nav), nav.mode, FALSE)
       IN  Handled("construct", onDateChange(propsOf(nav), called), called,
                   IF called = NoCall THEN 0 ELSE 1)

\* componentDidUpdate
DidUpdate ==
    /\ nav.pc = "updated"
    /\ IF nav.prevProps.mode # nav.mode \/ nav.prevProps.selectedDate # nav.selectedDate
       THEN LET called == setDateWithMode(selectedDate(nav), nav.mode, FALSE)
            IN  IF called = NoCall
                THEN nav' = [nav EXCEPT !.pc = "idle", !.prevProps = propsOf(nav),
                                        !.op = "didUpdate", !.called = NoCall]
                     /\ UNCHANGED dialog
                ELSE Handled("didUpdate", onDateChange(propsOf(nav), called), called,
                             nav.corrections + 1)
       ELSE /\ nav' = [nav EXCEPT !.pc = "idle", !.prevProps = propsOf(nav),
                                  !.op = "rendered", !.called = NoCall]
            /\ UNCHANGED dialog

\* handleModeChange
HandleModeChange(mode) ==
    /\ nav.pc = "idle"
    /\ ~nav.disabled
    /\ LET called == setDateWithMode(selectedDate(nav), mode, FALSE)
       IN  Handled("mode", onDateChange(onModeChange(propsOf(nav), mode), called), called,
                   IF called = NoCall THEN 0 ELSE 1)

\* changeSelectedDate, from a click on an arrow button that is not disabled
ChangeSelectedDate(direction) ==
    /\ nav.pc = "idle"
    /\ ~(IF direction = "next" THEN nextDisabled(nav) ELSE prevDisabled(nav))
    /\ inCalendar(changedDate(nav, direction))
    /\ Handled(direction, onDateChange(propsOf(nav), changedDate(nav, direction)),
               changedDate(nav, direction), 0)

\* onSelect, from a date picked in the calendar
OnSelect(date) ==
    /\ nav.pc = "idle"
    /\ ~nav.disabled
    /\ IF Len(nav.dateRange) = 0 \/ isDateWithinRange(date, nav.dateRange)
       THEN LET called == setDateWithMode(expectedDate(date, nav.mode), nav.mode, TRUE)
            IN  Handled("select", onDateChange(propsOf(nav), called), called, 0)
       ELSE Handled("select", propsOf(nav), NoCall, 0)

\* the date ranges the navigator is given: none, consecutive days, and single days apart
DateRanges ==
    { << >>,
      << <<1, 9>>, <<1, 10>>, <<1, 11>> >>,
      << <<1, 3>>, <<1, 10>>, <<1, 17>> >> }

\* the dates a user picks in the calendar
PickedDates == { toMoment(<<1, 10>>), toMoment(<<1, 12>>), toMoment(<<2, 14>>) }

\* the navigator as its owner first renders it
NewNavigator(mode, dt, dateRange, disabled) ==
    [mode         |-> mode,
     selectedDate |-> dt,
     dateRange    |-> dateRange,
     disabled     |-> disabled,
     prevProps    |-> [mode |-> mode, selectedDate |-> dt],
     pc           |-> "new",
     op           |-> "new",
     called       |-> NoCall,
     corrections  |-> 0]

uiVars == <<dialog, nav>>

allVars == <<vars, uiVars>>

(* ------------------------------------------------------------------ Init *)
\* mapFileTypes: the files of the form's initial value, by file type
InitialFiles(id, present) ==
    IF present THEN <<File(InitialUuid(id), <<"p", ".", "j">>, NoState)>> ELSE << >>

Init ==
    /\ \E present \in BOOLEAN :
          initialFileTypes = [id \in FileTypeIds |-> FileType(InitialFiles(id, present), << >>)]
    /\ state = [fileTypes |-> initialFileTypes, uploads |-> NoUploads, isDirty |-> FALSE]
    /\ finalFieldName \in {NoFieldName, "files"}
    /\ pristine \in BOOLEAN
    /\ lastPristineRef = pristine
    /\ needsEffects = TRUE
    /\ tasks = {}
    /\ nextDrop = 1
    /\ nextUuid = FirstServerUuid
    /\ deleteCalls = << >>
    /\ formValue = getFiles(state)
    /\ last = Step("mount", 0, NoTask, FALSE, FALSE)

Next ==
    \/ /\ \E id \in FileTypeIds : \E eventFiles \in DropsOn(id) : Drop(id, eventFiles)
       /\ UNCHANGED uiVars
    \/ /\ \E task \in tasks : \E i \in DOMAIN task.files : UploadProgress(task, i)
       /\ UNCHANGED uiVars
    \/ /\ \E task \in tasks : \E i \in DOMAIN task.files : UploadSucceeds(task, i)
       /\ UNCHANGED uiVars
    \/ /\ \E task \in tasks : \E i \in DOMAIN task.files : UploadFails(task, i)
       /\ UNCHANGED uiVars
    \/ /\ \E value \in BOOLEAN : SetPristine(value)
       /\ UNCHANGED uiVars
    \/ /\ RunEffects
       /\ UNCHANGED uiVars

\* the page of the file manager: it has no confirmation dialog and no date navigator
PageInit == Init /\ dialog = NoDialog /\ nav = NoNavigator

Spec == PageInit /\ [][Next]_allVars

\* React runs the effects of every render
FairSpec == Spec /\ WF_vars(RunEffects)

\* every upload request gets a response in the end
uploadResponds(d, i) ==
    \E task \in tasks :
        /\ task.drop = d
        /\ i \in DOMAIN task.files
        /\ (UploadSucceeds(task, i) \/ UploadFails(task, i))

RespondingSpec ==
    /\ FairSpec
    /\ \A d \in 1..MaxDrops : \A i \in 1..MaxDropLen : SF_vars(uploadResponds(d, i))

\* the file manager as it is mounted with an empty form
MountedEmpty ==
    /\ Init
    /\ initialFileTypes = [id \in FileTypeIds |-> FileType(<< >>, << >>)]
    /\ finalFieldName = NoFieldName
    /\ pristine = FALSE

UiInit ==
    /\ MountedEmpty
    /\ \E message \in BOOLEAN, extra_confirmation \in BOOLEAN :
          dialog = RenderedDialog(message, extra_confirmation)
    /\ \E mode \in Modes, dt \in DateStrings, dateRange \in DateRanges, disabled \in BOOLEAN :
          nav = NewNavigator(mode, dt, dateRange, disabled)

UiNext ==
    \/ ChangeCheckbox /\ UNCHANGED <<vars, nav>>
    \/ SubmitDialog /\ UNCHANGED <<vars, nav>>
    \/ Construct /\ UNCHANGED vars
    \/ DidUpdate /\ UNCHANGED vars
    \/ (\E mode \in Modes : HandleModeChange(mode)) /\ UNCHANGED vars
    \/ (\E direction \in {"prev", "next"} : ChangeSelectedDate(direction)) /\ UNCHANGED vars
    \/ (\E date \in PickedDates : OnSelect(date)) /\ UNCHANGED vars

\* a page with a confirmation dialog and a date navigator
UiSpec == UiInit /\ [][UiNext]_allVars

\* React calls componentDidUpdate after every update
UiFairSpec == UiSpec /\ WF_allVars(DidUpdate /\ UNCHANGED vars)

(* ================================================================ claims *)
filesOf(st, id) == st.fileTypes[id].files

\* the latest step was the response to an upload of a single-file file type whose
\* first file was in state 'added' when the file was dropped
ReplacedAdded(step) ==
    /\ step.op = "uploadOk"
    /\ ~allowMultipleFiles(step.fileTypeId)
    /\ step.task.deleteUuid # Null
    /\ step.task.replaceUuid = Null

C2_FailedUploadKeepsFile ==
    [][(last'.op = "uploadFail" /\ ~allowMultipleFiles(last'.fileTypeId)) =>
          /\ deleteCalls' = deleteCalls
          /\ filesOf(state', last'.fileTypeId) = filesOf(state, last'.fileTypeId)]_vars

C2_Witness ==
    /\ last.op = "uploadFail"
    /\ ~allowMultipleFiles(last.fileTypeId)
    /\ last.task.deleteUuid # Null
    /\ \E f \in Range(filesOf(state, last.fileTypeId)) : f.uuid = last.task.deleteUuid
    /\ deleteCalls = << >>

\* C3: a file type with allowMultipleFiles = false holds at most one File in every
\* reachable state.
C3_AtMostOneFile ==
    \A id \in FileTypeIds : ~allowMultipleFiles(id) => Len(filesOf(state, id)) <= 1

\* the uuids of all files of the registry
registryUuids(st) == Range(getFiles(st))

\* C4: in a multi-file file type every successful upload of a drop, in whatever order
\* the uploads of the drop complete, appends exactly one file in state 'added' whose
\* uuid no other file has, and leaves the other files alone: N uploads give N files.
C4_EachUploadAddsOne ==
    [][(last'.op = "uploadOk" /\ allowMultipleFiles(last'.fileTypeId)) =>
          /\ filesOf(state', last'.fileTypeId)
                = Append(filesOf(state, last'.fileTypeId),
                         File(last'.task.rv[last'.a], last'.task.files[last'.a], "added"))
          /\ last'.task.rv[last'.a] \notin registryUuids(state)
          /\ \A j \in DOMAIN last'.task.rv :
                j # last'.a => last'.task.rv[j] # last'.task.rv[last'.a]]_vars

\* two files of one drop, the second uploaded before the first, both in the list
C4_Witness ==
    /\ last.op = "uploadOk"
    /\ allowMultipleFiles(last.fileTypeId)
    /\ last.b
    /\ Len(last.task.rv) = 2
    /\ last.task.rv[1] > last.task.rv[2]
    /\ last.task.rv[2] > Null
    /\ \A j \in 1..2 : \E f \in Range(filesOf(state, last.fileTypeId)) :
          f.uuid = last.task.rv[j] /\ f.state = "added"

\* C5: in a file type with allowMultipleFiles = true a drop hands uploadFiles the
\* markUploaded action and no replace uuid, and neither the drop nor the responses to
\* its uploads, successful or not, call deleteFile.
C5_MultipleNeverDeletes ==
    [][(last'.op \in {"drop", "uploadOk", "uploadFail"}
          /\ allowMultipleFiles(last'.fileTypeId)) =>
          /\ deleteCalls' = deleteCalls
          /\ last'.task # NoTask =>
                last'.task.action = "markUploaded" /\ last'.task.replaceUuid = Null]_vars

\* an upload into a multi-file file type that already held an uploaded file
C5_Witness ==
    /\ last.op = "uploadOk"
    /\ allowMultipleFiles(last.fileTypeId)
    /\ last.b
    /\ \E f \in Range(filesOf(state, last.fileTypeId)) :
          f.state = "added" /\ f.uuid \notin Range(last.task.rv)

\* the dropped files the template of file type id rejects, in order
rejectedBy(id, eventFiles) == SelectSeq(eventFiles, LAMBDA name : ~templateAccepts(id, name))

filenamesOf(files) == [i \in DOMAIN files |-> files[i].filename]

\* no file of the registry has a name the template of its file type rejects
NoRejectedFile ==
    \A id \in FileTypeIds : rejectedBy(id, filenamesOf(filesOf(state, id))) = << >>

uploadedUuids(st) ==
    { f.uuid : f \in { g \in Range(allFiles(st.fileTypes)) : g.state \in {"added", "modified"} } }

\* C7: the effects that run after pristine went from false to true call deleteFile
\* exactly once for every file in state added or modified and reset the registry to
\* the file types of the original input; the effects of every other render (the
\* mount, a change from true to false, a render with pristine unchanged) dispatch no
\* reset, call no deleteFile and leave the files alone; and every change of pristine
\* is seen by them.
C7_PristineReset ==
    /\ [](pristine # lastPristineRef => needsEffects)
    /\ [][last'.op = "effects" =>
            IF pristine /\ ~lastPristineRef
            THEN /\ last'.a
                 /\ \E called \in [1..Cardinality(uploadedUuids(state)) -> uploadedUuids(state)] :
                      /\ Range(called) = uploadedUuids(state)
                      /\ deleteCalls' = deleteCalls \o called
                 /\ state'.fileTypes = initialFileTypes
            ELSE /\ ~last'.a
                 /\ deleteCalls' = deleteCalls
                 /\ state'.fileTypes = state.fileTypes
                 /\ state'.uploads = state.uploads]_vars

\* a reset that deleted two uploaded files
C7_Witness ==
    /\ last.op = "effects"
    /\ last.a
    /\ Len(deleteCalls) = 2
    /\ state.fileTypes = initialFileTypes

\* C8: right after the reset the derived file list is the file list of the file types
\* given (those of the original input), the dirty flag is false and no upload is
\* pending.
C8_ResetState ==
    [][(last'.op = "effects" /\ last'.a) =>
          /\ getFiles(state') = uuidsOf(allFiles(initialFileTypes))
          /\ ~state'.isDirty
          /\ \A id \in FileTypeIds : state'.uploads[id] = {}]_vars

\* a reset of a registry that held an uploaded file and a pending upload
C8_Witness ==
    /\ last.op = "effects"
    /\ last.a
    /\ deleteCalls # << >>
    /\ tasks # {}
    /\ ~isUploading(state)
    /\ getFiles(state) = uuidsOf(allFiles(initialFileTypes))

\* C9: a dirty registry leads to a run of the effects that calls onChange with the
\* file list of the registry and clears the dirty flag; the effects call onChange only
\* when the dirty flag is set, nothing else calls it, and the dirty flag is clear after
\* every run of the effects, so the render that follows does not call it again.
C9_Propagation ==
    /\ state.isDirty ~> (~state.isDirty /\ last.op = "effects" /\ last.b)
    /\ [][/\ last'.op = "effects" =>
               /\ last'.b = state.isDirty
               /\ state.isDirty => formValue' = uuidsOf(allFiles(state.fileTypes))
               /\ ~state'.isDirty
          /\ (last'.op # "effects" \/ ~state.isDirty) => formValue' = formValue]_vars

C9_Witness ==
    /\ last.op = "effects"
    /\ last.b
    /\ ~state.isDirty
    /\ Len(formValue) = 2
    /\ formValue = getFiles(state)

pendingUpload == \E id \in FileTypeIds : state.uploads[id] # {}

nothingInvalid == \A id \in FileTypeIds : state.fileTypes[id].invalidFiles = << >>

uploadIn(st, d, i) ==
    \E id \in FileTypeIds : \E upload \in st.uploads[id] : upload.tmpId = <<d, i>>

uploadPresent(d, i) == uploadIn(state, d, i)

\* C11: every Upload entity in the registry is destroyed in the end, whether its
\* request succeeds or fails, and the uploading indicator goes back to false; the
\* response to a failed upload removes its Upload entity, leaves the files of every
\* file type as they were and calls no delete; and whatever has failed before, every
\* pending upload can succeed once the effects have run.
C11_UploadsDestroyed ==
    /\ \A d \in 1..MaxDrops : \A i \in 1..MaxDropLen : uploadPresent(d, i) ~> ~uploadPresent(d, i)
    /\ isUploading(state) ~> ~isUploading(state)
    /\ [][last'.op \in {"uploadOk", "uploadFail"}
            => ~uploadIn(state', last'.task.drop, last'.a)]_vars
    /\ [][last'.op = "uploadFail"
            => /\ \A id \in FileTypeIds : filesOf(state', id) = filesOf(state, id)
               /\ deleteCalls' = deleteCalls]_vars
    /\ [](\A task \in tasks : \A i \in DOMAIN task.files :
            (task.rv[i] = Pending /\ ~needsEffects) => ENABLED UploadSucceeds(task, i))

\* the first of the two uploads of a drop on the multiple-file file type has failed,
\* and after that failure a second drop on the same file type has started its upload
C11_Witness ==
    /\ last.op = "drop"
    /\ last.fileTypeId = 2
    /\ last.task # NoTask
    /\ last.task.drop = 2
    /\ uploadPresent(2, 1)
    /\ \E task \in tasks :
          /\ task.drop = 1
          /\ task.fileTypeId = 2
          /\ task.rv = <<Null, Pending>>
    /\ filesOf(state, 2) = initialFileTypes[2].files

\* C12 as stated: the completion of an upload that was started before a reset (the
\* reset is the only thing that takes the Upload entity of a pending request out of
\* the registry) adds no file to and changes no file of the registry.
C12_StaleCompletionIgnored ==
    [][(last'.op = "uploadOk" /\ ~uploadIn(state, last'.task.drop, last'.a))
          => \A id \in FileTypeIds : filesOf(state', id) = filesOf(state, id)]_vars

\* C14: a drop with files the template rejects, and a progress event, leave the files
\* of every file type, the dirty flag and the form value as they were, and the
\* effects that run next do not call onChange.
C14_NoChangeNoOnChange ==
    /\ [][((last'.op = "drop" /\ last'.a > 0) \/ last'.op = "progress")
            => /\ \A id \in FileTypeIds : filesOf(state', id) = filesOf(state, id)
               /\ state'.isDirty = state.isDirty
               /\ formValue' = formValue]_vars
    /\ [][(((last.op = "drop" /\ last.a > 0) \/ last.op = "progress") /\ last'.op = "effects")
            => ~last'.b /\ formValue' = formValue]_vars

\* the effects have run after the first drop, of one file that the template rejected
C14_Witness ==
    /\ last.op = "effects"
    /\ ~last.b
    /\ nextDrop = 2
    /\ state.fileTypes[1].invalidFiles = << <<"x", "p">> >>
    /\ nextUuid = FirstServerUuid
    /\ formValue = getFiles([fileTypes |-> initialFileTypes])

\* C15: deleteFile is never called with the uuid of a file of the form's initial
\* value; a drop on a single-file file type whose file is in neither state 'added'
\* nor 'modified' hands markModified and the uuid of that file to uploadFiles and
\* keeps no file to delete.
C15_InitialNeverDeleted ==
    /\ [](\A id \in FileTypeIds : InitialUuid(id) \notin Range(deleteCalls))
    /\ [][(/\ last'.op = "drop"
           /\ last'.task # NoTask
           /\ ~allowMultipleFiles(last'.fileTypeId)
           /\ filesOf(state, last'.fileTypeId) # << >>
           /\ filesOf(state, last'.fileTypeId)[1].state \notin {"added", "modified"})
            => /\ last'.task.action = "markModified"
               /\ last'.task.replaceUuid = filesOf(state, last'.fileTypeId)[1].uuid
               /\ last'.task.deleteUuid = Null]_vars

\* the file of the initial value of the single-file file type has been replaced
C15_Witness ==
    /\ last.op = "uploadOk"
    /\ last.fileTypeId = 1
    /\ last.task.replaceUuid = InitialUuid(1)
    /\ filesOf(state, 1) # << >>
    /\ filesOf(state, 1)[1].state = "modified"
    /\ deleteCalls = << >>

\* the files of a drop that the template of file type id accepts
acceptedBy(id, eventFiles) == SelectSeq(eventFiles, LAMBDA name : templateAccepts(id, name))

\* C16: a drop on a single-file file type with several accepted files hands only the
\* first of them to uploadFiles and starts one upload; the others get no upload and
\* are recorded neither as files nor as invalid files (the invalid files grow by the
\* files the template rejects only).
C16_OnlyFirstUploaded ==
    [][\A id \in FileTypeIds, eventFiles \in DropInputs :
          (Drop(id, eventFiles) /\ ~allowMultipleFiles(id) /\ Len(acceptedBy(id, eventFiles)) > 1)
            => /\ last'.task # NoTask
               /\ last'.task.files = <<acceptedBy(id, eventFiles)[1]>>
               /\ state'.uploads[id] \ state.uploads[id] = {Upload(<<last'.task.drop, 1>>, 0)}
               /\ filesOf(state', id) = filesOf(state, id)
               /\ state'.fileTypes[id].invalidFiles
                     = state.fileTypes[id].invalidFiles \o rejectedBy(id, eventFiles)]_vars

\* a drop of pq.j and p.j, in this order, on the single-file file type
C16_Witness ==
    /\ last.op = "drop"
    /\ last.fileTypeId = 1
    /\ last.a = 0
    /\ last.b = 2
    /\ last.task # NoTask
    /\ last.task.files = << <<"p", "q", ".", "j">> >>
    /\ Cardinality(state.uploads[1]) = 1

\* C18 as stated: no uuid is handed to deleteFile more than once.
C18_NoDoubleDelete ==
    \A i \in DOMAIN deleteCalls, j \in DOMAIN deleteCalls :
        i # j => deleteCalls[i] # deleteCalls[j]

\* C19 as stated: when no upload is pending, every uuid the server has assigned is
\* the uuid of a file of the registry or has been handed to deleteFile.
C19_NoOrphan ==
    (tasks = {} /\ ~isUploading(state))
      => \A uuid \in FirstServerUuid..(nextUuid - 1) :
            uuid \in registryUuids(state) \/ uuid \in Range(deleteCalls)

\* C13: with extra_confirmation the primary button of the confirmation dialog is
\* disabled exactly when the checkbox is not checked, from the first rendering (where
\* the checkbox is not checked) on and after every change of the checkbox; without
\* extra_confirmation the button is never disabled.
C13_ButtonFollowsCheckbox ==
    IF dialog.extra_confirmation
    THEN dialog.disabled = ~dialog.checked
    ELSE ~dialog.disabled

\* the checkbox of a dialog with extra_confirmation has been ticked, and the dialog
\* submitted with the button this enabled
C13_Witness ==
    /\ dialog.extra_confirmation
    /\ dialog.checked
    /\ ~dialog.disabled
    /\ dialog.submitted

\* the first day of the week or month a moment is in, by the mode
firstDayOf(t, mode) ==
    CASE mode = "weeks"  -> CHOOSE w \in Moments :
                                w % DaysPerWeek = 0 /\ w <= t /\ t < w + DaysPerWeek
      [] mode = "months" -> toMoment(<<monthOf(t), 1>>)
      [] OTHER           -> t

\* what the claim says onDateChange is called with for a selected date in a mode
alignmentCall(n, mode) ==
    IF firstDayOf(selectedDate(n), mode) # selectedDate(n)
    THEN firstDayOf(selectedDate(n), mode) ELSE NoCall

\* C17: the constructor, and componentDidUpdate after a change of the mode or of the
\* selected date, call onDateChange with the first day of the week (mode 'weeks') or
\* month (mode 'months') of the selected date when the selected date is not that
\* day, and call nothing when it is; so does handleModeChange for the mode it sets.
\* Between two events from outside at most one such call is made, and every update
\* is followed by a state in which no componentDidUpdate is due.
C17_AlignsOnce ==
    /\ [][nav'.op \in {"construct", "didUpdate"} => nav'.called = alignmentCall(nav, nav.mode)]_nav
    /\ [][nav'.op = "mode" => nav'.called = alignmentCall(nav, nav'.mode)]_nav
    /\ [][nav'.op = "rendered" => nav'.called = NoCall /\ propsOf(nav') = propsOf(nav)]_nav
    /\ [](nav.corrections <= 1)
    /\ (nav.pc = "updated") ~> (nav.pc = "idle")

\* componentDidUpdate has run after the one correction of a date in mode 'weeks', and
\* found the date aligned
C17_Witness ==
    /\ nav.op = "didUpdate"
    /\ nav.called = NoCall
    /\ nav.corrections = 1
    /\ nav.mode = "weeks"
    /\ nav.pc = "idle"

\* the moments of the dates of a date range
momentsOf(dateRange) == { toMoment(dateRange[k]) : k \in DOMAIN dateRange }

\* the date of the range next to moment t in a direction
neighbourOf(dateRange, t, direction) ==
    IF direction = "next"
    THEN { m \in momentsOf(dateRange) :
             m > t /\ \A o \in momentsOf(dateRange) : o > t => m <= o }
    ELSE { m \in momentsOf(dateRange) :
             m < t /\ \A o \in momentsOf(dateRange) : o < t => o <= m }

\* C20 as stated: with a date range and in mode 'days', a click on an arrow button
\* that is not disabled calls onDateChange with a date of the range, the neighbour
\* of the selected date in the direction of the arrow, whether or not the selected
\* date is itself a date of the range.
C20_ArrowStaysInRange ==
    [][(nav'.op \in {"prev", "next"} /\ nav.mode = "days" /\ nav.dateRange # << >>)
          => /\ nav'.called \in momentsOf(nav.dateRange)
             /\ nav'.called \in neighbourOf(nav.dateRange, selectedDate(nav), nav'.op)]_nav

\* a moment lies within a date range: not before its first and not after its last date
withinRange(t, dateRange) ==
    /\ \E m \in momentsOf(dateRange) : m <= t
    /\ \E m \in momentsOf(dateRange) : t <= m

\* C21 as stated: with a date range, picking a date outside the range calls
\* onDateChange never, and picking a date within it calls onDateChange once, with a
\* date that is itself within the range, in every mode.
C21_Original ==
    [][\A date \in PickedDates :
          (OnSelect(date) /\ nav.dateRange # << >>)
            => IF withinRange(date, nav.dateRange)
               THEN nav'.called \in Moments /\ withinRange(nav'.called, nav.dateRange)
               ELSE nav'.called = NoCall]_nav

\* C21: with a date range, picking a date outside the range calls onDateChange
\* never; picking a date within it calls onDateChange once, with the picked date in
\* mode 'days' (a date within the range) and with the first day of its week or month
\* in the modes 'weeks' and 'months' (a day that can lie before the range); the
\* componentDidUpdate that follows calls nothing.
C21_SelectAligned ==
    /\ [][\A date \in PickedDates :
            (OnSelect(date) /\ nav.dateRange # << >>)
              => IF withinRange(date, nav.dateRange)
                 THEN /\ nav'.called = firstDayOf(date, nav.mode)
                      /\ nav.mode = "days" => withinRange(nav'.called, nav.dateRange)
                 ELSE nav'.called = NoCall /\ propsOf(nav') = propsOf(nav)]_nav
    /\ [][(nav.op = "select" /\ nav'.op \in {"didUpdate", "rendered"})
            => nav'.called = NoCall]_nav

\* in mode 'weeks' the 10th of the first month was picked in the range from the 9th
\* to the 11th, and onDateChange was called with the 8th, the first day of its week
C21_Witness ==
    /\ nav.op = "select"
    /\ nav.mode = "weeks"
    /\ nav.dateRange = << <<1, 9>>, <<1, 10>>, <<1, 11>> >>
    /\ nav.called = toMoment(<<1, 8>>)
    /\ nav.selectedDate = <<1, 8>>

====
